---- MODULE Spec2Model ----
(***************************************************************************)
(* Model of the serverkit scraping service: the job orchestrator of        *)
(* src/server.py (start_job, get_status, download_result and the           *)
(* background task run_scraper_task) and the extraction pipeline of        *)
(* src/worker.py (SkoolClassroomScraper).                                  *)
(*                                                                         *)
(* Text is a sequence of one-character strings, a file-system path a       *)
(* sequence of path components, an optional value a sequence of length 0   *)
(* (None, a missing key) or 1.  Log timestamps are left out: no claim      *)
(* reads the clock.                                                        *)
(***************************************************************************)
EXTENDS Integers, Sequences, FiniteSets, TLC

VARIABLES
    jobs,       \* server.py jobs: job_id -> [status, logs, result, progress]
    background, \* BackgroundTasks queue: the (job_id, request) pairs added and not yet run
    launched,   \* job_id -> how many times run_scraper_task was entered for it
    pc,         \* job_id -> position of the job's task inside run_scraper_task / run
    sc,         \* job_id -> the task's SkoolClassroomScraper object and loop variables
    exc,        \* job_id -> the exception the task raised (None while there is none)
    fs,         \* the file system: [dirs, files], paths relative to the working directory
    fetched,    \* job_id -> the media URLs requested with requests.get, in call order
    attempts,   \* job_id -> the file ids whose signed URL was requested, in call order
    absorbed,   \* job_id -> how many item failures the pipeline absorbed so far
    response,   \* the HTTP response of the API call handled by the current step
    uuids,      \* the ids uuid.uuid4() has not returned yet
    call        \* a direct call of one of the scraper's methods: its arguments and result

vars == <<jobs, background, launched, pc, sc, exc, fs, fetched, attempts,
          absorbed, response, uuids, call>>

----------------------------------------------------------------------------
(* Bounds of the model. *)

\* top-level children of a course document
MaxChildren == 2
\* img elements inside one module page's content region
MaxImages == 1

----------------------------------------------------------------------------
(* Optional values and text. *)

None == <<>>
Some(x) == <<x>>
IsSome(o) == Len(o) = 1
Get(o) == o[1]
\* Python's dict.get(key, default)
GetOr(o, default) == IF IsSome(o) THEN Get(o) ELSE default

Lowercase == <<"a","b","c","d","e","f","g","h","i","j","k","l","m",
               "n","o","p","q","r","s","t","u","v","w","x","y","z">>
Uppercase == <<"A","B","C","D","E","F","G","H","I","J","K","L","M",
               "N","O","P","Q","R","S","T","U","V","W","X","Y","Z">>
Digits == <<"0","1","2","3","4","5","6","7","8","9">>

Range(s) == {s[i] : i \in DOMAIN s}

\* the characters the first re.sub of _sanitize_filename keeps: [a-zA-Z0-9\-\.]
SafeChars == Range(Lowercase) \cup Range(Uppercase) \cup Range(Digits) \cup {"-", "."}

\* str.lower() on one character of SafeChars
LowerChar(c) ==
    IF \E i \in DOMAIN Uppercase : Uppercase[i] = c
    THEN Lowercase[CHOOSE i \in DOMAIN Uppercase : Uppercase[i] = c]
    ELSE c

Lower(s) == [i \in DOMAIN s |-> LowerChar(s[i])]

RECURSIVE DropWhile(_, _)
\* s without its longest prefix of characters of set cs
DropWhile(s, cs) ==
    IF s = <<>> \/ Head(s) \notin cs THEN s ELSE DropWhile(Tail(s), cs)

RECURSIVE DropUnsafe(_)
DropUnsafe(s) ==
    IF s = <<>> \/ Head(s) \in SafeChars THEN s ELSE DropUnsafe(Tail(s))

RECURSIVE SubUnsafe(_)
\* re.sub(r'[^a-zA-Z0-9\-\.]+', '-', name)
SubUnsafe(s) ==
    IF s = <<>> THEN <<>>
    ELSE IF Head(s) \in SafeChars THEN <<Head(s)>> \o SubUnsafe(Tail(s))
    ELSE <<"-">> \o SubUnsafe(DropUnsafe(Tail(s)))

RECURSIVE SubDashes(_)
\* re.sub(r'-+', '-', name)
SubDashes(s) ==
    IF s = <<>> THEN <<>>
    ELSE IF Head(s) = "-" THEN <<"-">> \o SubDashes(DropWhile(Tail(s), {"-"}))
    ELSE <<Head(s)>> \o SubDashes(Tail(s))

RECURSIVE DropTrailing(_, _)
DropTrailing(s, cs) ==
    IF s = <<>> \/ s[Len(s)] \notin cs THEN s
    ELSE DropTrailing(SubSeq(s, 1, Len(s) - 1), cs)

\* name.strip('-')
StripDashes(s) == DropTrailing(DropWhile(s, {"-"}), {"-"})

Untitled == <<"u","n","t","i","t","l","e","d">>

\* _sanitize_filename, had it stripped the hyphens before the substitutions
SanitizeFilenameStripsFirst(name) ==
    LET stripped == SubDashes(SubUnsafe(StripDashes(name)))
    IN  IF stripped = <<>> THEN Untitled ELSE Lower(stripped)

\* SkoolClassroomScraper._sanitize_filename
SanitizeFilename(name) ==
    LET stripped == StripDashes(SubDashes(SubUnsafe(name)))
    IN  IF stripped = <<>> THEN Untitled ELSE Lower(stripped)

----------------------------------------------------------------------------
(* Literal strings of the source. *)

MEDIA_DIR == <<"m","e","d","i","a">>
DownloadsDir == <<"d","o","w","n","l","o","a","d","s">>
AssetsDir == <<"a","s","s","e","t","s">>
IndexHtml == <<"i","n","d","e","x",".","h","t","m","l">>
StyleCss == <<"s","t","y","l","e",".","c","s","s">>
ScriptJs == <<"s","c","r","i","p","t",".","j","s">>
HtmlExt == <<".","h","t","m","l">>
BinExt == <<".","b","i","n">>
FilePrefix == <<"f","i","l","e","_">>
General == <<"G","e","n","e","r","a","l">>
CourseName == <<"C","o","u","r","s","e">>
ExportPrefix == <<"s","k","o","o","l","_","e","x","p","o","r","t","_">>
MediaHost == "assets.skool.com"

\* config.OUTPUT_DIR = f"skool_export_{job_id}"
OutputDirName(job_id) == ExportPrefix \o job_id

\* Path(config.OUTPUT_DIR): the job's output root, relative to the working directory
OutputDir(job_id) == <<OutputDirName(job_id)>>

----------------------------------------------------------------------------
(* The file system: pathlib's mkdir and open(path, 'w'). *)

Parent(path) == SubSeq(path, 1, Len(path) - 1)
Prefixes(path) == {SubSeq(path, 1, n) : n \in 1..Len(path)}

\* Path.mkdir(parents=True, exist_ok=True) raises when the path or one of its
\* ancestors is a regular file
MkdirFails(f, path) == Prefixes(path) \cap f.files # {}

Mkdir(f, path) ==
    IF MkdirFails(f, path) THEN f
    ELSE [f EXCEPT !.dirs = @ \cup Prefixes(path)]

\* open(path, 'w') raises when the parent is no directory or the path is one
WriteFails(f, path) ==
    \/ path \in f.dirs
    \/ (Len(path) > 1 /\ Parent(path) \notin f.dirs)

WriteFile(f, path) ==
    IF WriteFails(f, path) THEN f
    ELSE [f EXCEPT !.files = @ \cup {path}]

\* the paths of the tree strictly below dir
Below(f, dir) ==
    {p \in f.dirs \cup f.files :
        Len(p) > Len(dir) /\ SubSeq(p, 1, Len(dir)) = dir}

----------------------------------------------------------------------------
(* The course document and the Structure Builder. *)

\* json.loads(resources): the decoded list, when the string is valid JSON
JsonLoads(str) == str.refs
EmptyJsonList == [valid |-> TRUE, refs |-> <<>>]

\* the resources string of a module's metadata, '[]' when absent
ResourcesOf(m_data) == GetOr(m_data.metadata.resources, EmptyJsonList)

\* lines 317-321 and 330-334: one module of the structure
BuildModule(m_data) ==
    [id |-> m_data.id,
     name |-> GetOr(m_data.metadata.title, m_data.name),
     files |-> JsonLoads(ResourcesOf(m_data))]

\* lines 312-335: the section a top-level child of unit type set or module becomes
BuildSection(child) ==
    IF child.course.unitType = "set"
    THEN [name |-> GetOr(child.course.metadata.title, child.course.name),
          modules |-> [i \in DOMAIN child.children |->
                          BuildModule(child.children[i].course)]]
    ELSE [name |-> General, modules |-> <<BuildModule(child.course)>>]

\* lines 312 and 326, had the builder known the unit type set only
IsSectionChildSetOnly(child) == child.course.unitType = "set"

\* lines 312 and 326: the unit types the builder turns into sections
IsSectionChild(child) == child.course.unitType \in {"set", "module"}

\* the module nodes _build_course_structure decodes
RECURSIVE ModuleNodes(_)
ModuleNodes(children) ==
    IF children = <<>> THEN <<>>
    ELSE LET c == Head(children)
         IN  (CASE c.course.unitType = "set" ->
                      [i \in DOMAIN c.children |-> c.children[i].course]
                [] c.course.unitType = "module" -> <<c.course>>
                [] OTHER -> <<>>) \o ModuleNodes(Tail(children))

\* the legacy shape: no children and a non-empty sets list (line 307)
IsLegacy(course_data) ==
    course_data.children = <<>> /\ GetOr(course_data.sets, <<>>) # <<>>

\* json.loads raises on a resources string that is not JSON
BuildRaises(course_data) ==
    /\ ~IsLegacy(course_data)
    /\ \E i \in DOMAIN ModuleNodes(course_data.children) :
          ~ResourcesOf(ModuleNodes(course_data.children)[i]).valid

\* SkoolClassroomScraper._build_course_structure
BuildCourseStructure(course_data) ==
    IF IsLegacy(course_data)
    THEN [name |-> GetOr(course_data.course.name, CourseName),
          modules |-> Get(course_data.sets)]
    ELSE LET kept == SelectSeq(course_data.children, IsSectionChild)
         IN  [name |-> GetOr(course_data.course.title,
                             GetOr(course_data.course.name, CourseName)),
              modules |-> [i \in DOMAIN kept |-> BuildSection(kept[i])]]

RECURSIVE FlatModules(_)
\* the (section name, module) pairs in the order of the nested loops over
\* structure['modules'] and section['modules']
FlatModules(sections) ==
    IF sections = <<>> THEN <<>>
    ELSE [i \in DOMAIN Head(sections).modules |->
             [section |-> Head(sections).name, module |-> Head(sections).modules[i]]]
         \o FlatModules(Tail(sections))

Modules(course_data) == FlatModules(BuildCourseStructure(course_data).modules)

----------------------------------------------------------------------------
(* The inputs: what the upstream site can serve. *)

Metadata(title, resources) == [title |-> title, resources |-> resources]
Json(refs) == [valid |-> TRUE, refs |-> refs]
NotJson == [valid |-> FALSE, refs |-> <<>>]
Node(id, name, unitType, metadata) ==
    [id |-> id, name |-> name, unitType |-> unitType, metadata |-> metadata]
Child(course, children) == [course |-> course, children |-> children]

FileRef(file_id, name, title) == [file_id |-> file_id, name |-> name, title |-> title]
FileNamed == FileRef(Some(<<"7">>), Some(<<"a",".","p","d","f">>), None)
FileNoId == FileRef(None, Some(<<"n">>), None)
FileTitled == FileRef(Some(<<"8">>), None, Some(<<"D","o","c">>))
FileNotes == FileRef(Some(<<"9">>), Some(<<"n","o","t","e","s">>), None)

\* a set with one module that carries two file references
SetUnit ==
    Child(Node("s1", <<"U","n","i","t"," ","1">>, "set", Metadata(None, None)),
          <<Child(Node("m1", <<"B"," ","1">>, "module",
                       Metadata(None, Some(Json(<<FileNamed, FileTitled>>)))), <<>>)>>)
\* a set whose title override is "Downloads"
SetDownloads ==
    Child(Node("s2", <<"x">>, "set",
               Metadata(Some(<<"D","o","w","n","l","o","a","d","s">>), None)),
          <<Child(Node("m2", <<"I","n","t","r","o">>, "module",
                       Metadata(None, None)), <<>>)>>)
\* two top-level modules whose display names differ and sanitize alike; the
\* first carries a file reference without file id
ModuleA ==
    Child(Node("m3", <<"A">>, "module", Metadata(None, Some(Json(<<FileNoId>>)))), <<>>)
ModuleA2 ==
    Child(Node("m4", <<"x">>, "module", Metadata(Some(<<"a","!">>), None)), <<>>)
\* a child of a unit type the builder does not know
OtherChild ==
    Child(Node("o1", <<"Q">>, "quiz", Metadata(None, None)), <<>>)

ChildPool == {SetUnit, SetDownloads, ModuleA, ModuleA2, OtherChild}

\* the children lists: up to MaxChildren children, each with its own id
ChildLists ==
    UNION {{c \in [1..n -> ChildPool] : \A i, k \in 1..n : i # k => c[i] # c[k]} :
              n \in 0..MaxChildren}

CourseData(course, children, sets) ==
    [course |-> course, children |-> children, sets |-> sets]
CourseHead == [name |-> Some(<<"C","1">>), title |-> None]

LegacyDoc ==
    CourseData(CourseHead, <<>>,
        Some(<<[name |-> <<"U","n","i","t"," ","1">>,
                modules |-> <<[id |-> "m5", name |-> <<"B"," ","1">>,
                               files |-> <<FileNotes>>]>>]>>))
\* a module whose resources string is not JSON
BrokenDoc ==
    CourseData(CourseHead,
        <<Child(Node("m6", <<"A">>, "module", Metadata(None, Some(NotJson))), <<>>)>>,
        None)

CourseDocs ==
    {CourseData(CourseHead, c, None) : c \in ChildLists} \cup {LegacyDoc, BrokenDoc}

\* the classroom page: without the __NEXT_DATA__ script, with a script whose JSON
\* lacks props/pageProps/course, or with a course document
NoScriptPage == [script |-> None]
NoCoursePage == [script |-> Some([course |-> None])]
CoursePage(course_data) == [script |-> Some([course |-> Some(course_data)])]
ClassroomPages ==
    {NoScriptPage, NoCoursePage} \cup {CoursePage(d) : d \in CourseDocs}

Url(host, path) == [host |-> host, path |-> path]
ImagePool == {Url(MediaHost, <<<<"a">>, <<"x",".","p","n","g">>>>)}
ImageLists == UNION {[1..n -> ImagePool] : n \in 1..MaxImages}

\* a module page: whether it has a content region (div.tiptap or
\* styled__PostContent), whether the region holds text, and its img sources
ModulePage(region, text, imgs) == [region |-> region, text |-> text, imgs |-> imgs]
PagePool ==
    {ModulePage(FALSE, FALSE, <<>>), ModulePage(TRUE, TRUE, <<>>)}
    \cup {ModulePage(TRUE, FALSE, imgs) : imgs \in ImageLists}

\* str(uuid.uuid4()): the pool of job ids
UuidPool == {<<"1">>}
\* a job id that was never handed out
UnknownId == <<"0">>

----------------------------------------------------------------------------
(* The job registry and the API handlers of server.py. *)

\* lines 52-57: the record start_job stores
NewJob == [status |-> "queued", logs |-> <<>>, result |-> None, progress |-> 0]

\* SkoolClassroomScraper.__init__, lines 74-79, with the loop variables of the
\* pipeline's methods at their initial values
NewScraper(downloadFiles) ==
    [download_files |-> downloadFiles,
     html_content |-> None,
     course_data |-> None,
     module_contents |-> <<>>,
     stats |-> [total_modules |-> 0, modules_with_content |-> 0,
                modules_without_content |-> 0, files_downloaded |-> 0],
     mi |-> 0, fi |-> 0, total_files |-> 0,
     text |-> FALSE, imgs |-> <<>>, srcs |-> <<>>]

NoResponse == [op |-> "none", code |-> 0, job_id |-> None, body |-> None]
Response(op, code, job_id, body) ==
    [op |-> op, code |-> code, job_id |-> job_id, body |-> body]

\* log_callback, lines 99-105: one append of a whole entry
Entry(message, arg, type) == [message |-> message, arg |-> arg, type |-> type]

\* log_callback, had every job's record held the same logs list
LogShared(j, message, arg, type) ==
    [id \in DOMAIN jobs |->
        [jobs[id] EXCEPT !.logs = Append(@, Entry(message, arg, type))]]

\* line 101: job is jobs[job_id] of the task's own job_id (line 96)
Log(j, message, arg, type) ==
    [jobs EXCEPT ![j].logs = Append(@, Entry(message, arg, type))]

\* no method of the scraper is called outside a job's task
NoCall == [fn |-> "none", args |-> <<>>, result |-> <<>>]

\* the service after start-up: line 39, jobs = {}
Started ==
    /\ jobs = <<>>
    /\ background = {}
    /\ launched = <<>>
    /\ pc = <<>>
    /\ sc = <<>>
    /\ exc = <<>>
    /\ fs = [dirs |-> {}, files |-> {}]
    /\ fetched = <<>>
    /\ attempts = <<>>
    /\ absorbed = <<>>
    /\ response = NoResponse
    /\ uuids = UuidPool

Init == Started /\ call = NoCall

\* start_job, lines 48-62
StartJob(downloadFiles) ==
    \E job_id \in uuids :
        /\ uuids' = uuids \ {job_id}
        /\ jobs' = (job_id :> NewJob) @@ jobs
        /\ background' = background \cup
               {[job_id |-> job_id, request |-> [downloadFiles |-> downloadFiles]]}
        /\ response' = Response("start_job", 200, Some(job_id), None)
        /\ launched' = (job_id :> 0) @@ launched
        /\ pc' = (job_id :> "pending") @@ pc
        /\ sc' = (job_id :> NewScraper(downloadFiles)) @@ sc
        /\ exc' = (job_id :> None) @@ exc
        /\ fetched' = (job_id :> <<>>) @@ fetched
        /\ attempts' = (job_id :> <<>>) @@ attempts
        /\ absorbed' = (job_id :> 0) @@ absorbed
        /\ UNCHANGED <<fs, call>>

\* what get_status returns, lines 64-68
StatusResponse(job_id) ==
    IF job_id \notin DOMAIN jobs
    THEN Response("get_status", 404, Some(job_id), None)
    ELSE Response("get_status", 200, Some(job_id), Some(jobs[job_id]))

GetStatus(job_id) ==
    /\ response' = StatusResponse(job_id)
    /\ UNCHANGED <<jobs, background, launched, pc, sc, exc, fs, fetched, attempts,
                   absorbed, uuids, call>>

\* the guard of download_result, line 76
ResultRejected(job) == job.status # "completed" \/ job.result = None

ZipExt == <<".","z","i","p">>
\* shutil.make_archive writes skool_export_<job_id>.zip into the working directory
ZipPath(job_id) == <<OutputDirName(job_id) \o ZipExt>>

\* download_result, lines 70-88.  make_archive writes the archive or raises
DownloadResult(job_id) ==
    /\ IF job_id \notin DOMAIN jobs
       THEN /\ response' = Response("download_result", 404, Some(job_id), None)
            /\ fs' = fs
       ELSE IF ResultRejected(jobs[job_id])
       THEN /\ response' = Response("download_result", 400, Some(job_id), None)
            /\ fs' = fs
       ELSE \E archived \in BOOLEAN :
               IF archived
               THEN /\ response' = Response("download_result", 200, Some(job_id), None)
                    /\ fs' = [fs EXCEPT !.files = @ \cup {ZipPath(job_id)}]
               ELSE /\ response' = Response("download_result", 500, Some(job_id), None)
                    /\ fs' = fs
    /\ UNCHANGED <<jobs, background, launched, pc, sc, exc, fetched, attempts,
                   absorbed, uuids, call>>

----------------------------------------------------------------------------
(* The background task: run_scraper_task and SkoolClassroomScraper.run. *)

\* a step of job j's task moves the task from one position to another and
\* leaves the other jobs' tasks where they are
Goto(j, to) == pc' = [pc EXCEPT ![j] = to]

\* an exception leaves run(): control goes to the except clause of line 129
Raise(j, message) ==
    /\ pc' = [pc EXCEPT ![j] = "except"]
    /\ exc' = [exc EXCEPT ![j] = Some(message)]

\* the step was a task's, not an API call's
TaskStep == response' = NoResponse /\ UNCHANGED <<uuids, call>>

\* run_scraper_task, lines 95-97: the BackgroundTasks runner starts the task
RunScraperTask(j) ==
    /\ \E t \in background : t.job_id = j
    /\ pc[j] = "pending"
    /\ background' = {t \in background : t.job_id # j}
    /\ launched' = [launched EXCEPT ![j] = @ + 1]
    /\ jobs' = [jobs EXCEPT ![j].status = "running"]
    /\ Goto(j, "init")
    /\ TaskStep
    /\ UNCHANGED <<sc, exc, fs, fetched, attempts, absorbed>>

\* lines 108-118: the config is filled in and the first entry logged
InitLog(j) ==
    /\ pc[j] = "init"
    /\ jobs' = Log(j, "Initializing Scraper Engine...", <<>>, "info")
    /\ Goto(j, "construct")
    /\ TaskStep
    /\ UNCHANGED <<background, launched, sc, exc, fs, fetched, attempts, absorbed>>

\* the directories SkoolClassroomScraper.__init__ creates, lines 70-72
ConstructDirs(j) == {OutputDir(j), OutputDir(j) \o <<MEDIA_DIR>>}

\* line 121: SkoolClassroomScraper(config, callback=log_callback)
Construct(j) ==
    /\ pc[j] = "construct"
    /\ IF \E d \in ConstructDirs(j) : MkdirFails(fs, d)
       THEN /\ Raise(j, "FileExistsError")
            /\ fs' = fs
       ELSE /\ Goto(j, "run")
            /\ fs' = [fs EXCEPT !.dirs = @ \cup ConstructDirs(j)]
            /\ exc' = exc
    /\ TaskStep
    /\ UNCHANGED <<jobs, background, launched, sc, fetched, attempts, absorbed>>

\* run, line 96
RunBegin(j) ==
    /\ pc[j] = "run"
    /\ jobs' = Log(j, "Starting extraction process...", <<>>, "info")
    /\ Goto(j, "auth")
    /\ TaskStep
    /\ UNCHANGED <<background, launched, sc, exc, fs, fetched, attempts, absorbed>>

\* _authenticate_and_setup, lines 109-116: the entry logged, the browser
\* launched and the login form submitted
AuthBegin(j) ==
    /\ pc[j] = "auth"
    /\ jobs' = Log(j, "Authenticating with Skool...", <<>>, "info")
    /\ Goto(j, "login")
    /\ TaskStep
    /\ UNCHANGED <<background, launched, sc, exc, fs, fetched, attempts, absorbed>>

LoginOutcomes == {"ok", "timeout", "browser_error"}

\* _authenticate_and_setup, lines 110-122.  outcome: wait_for_url returns, it
\* times out, or a browser call before it (launch, goto, fill, click) raises
Login(j) ==
    /\ pc[j] = "login"
    /\ \E outcome \in LoginOutcomes :
       CASE outcome = "ok" ->
              /\ jobs' = Log(j, "Login successful", <<>>, "success")
              /\ Goto(j, "fetch")
              /\ exc' = exc
         [] outcome = "timeout" ->
              /\ jobs' = Log(j, "Login failed. Check credentials.", <<>>, "error")
              /\ Raise(j, "Login failed")
         [] OTHER ->
              /\ jobs' = jobs
              /\ Raise(j, "playwright Error")
    /\ TaskStep
    /\ UNCHANGED <<background, launched, sc, fs, fetched, attempts, absorbed>>

\* _fetch_classroom_page, lines 124-127.  loaded: whether page.goto returns;
\* page: the classroom page it rendered
FetchClassroom(j) ==
    /\ pc[j] = "fetch"
    /\ jobs' = Log(j, "Fetching classroom", <<>>, "info")
    /\ \E loaded \in BOOLEAN, page \in ClassroomPages :
       IF loaded
       THEN /\ sc' = [sc EXCEPT ![j].html_content = Some(page)]
            /\ Goto(j, "structure")
            /\ exc' = exc
       ELSE /\ sc' = sc
            /\ Raise(j, "playwright Error")
    /\ TaskStep
    /\ UNCHANGED <<background, launched, fs, fetched, attempts, absorbed>>

\* _extract_course_structure, lines 129-135
ExtractCourseStructure(j) ==
    /\ pc[j] = "structure"
    /\ jobs' = Log(j, "Parsing course structure...", <<>>, "info")
    /\ LET html == Get(sc[j].html_content)
       IN  IF html.script = None
           THEN /\ Raise(j, "Could not find course data")
                /\ sc' = sc
           ELSE IF Get(html.script).course = None
           THEN /\ Raise(j, "KeyError")
                /\ sc' = sc
           ELSE /\ sc' = [sc EXCEPT ![j].course_data = Get(html.script).course]
                /\ Goto(j, "scrape")
                /\ exc' = exc
    /\ TaskStep
    /\ UNCHANGED <<background, launched, fs, fetched, attempts, absorbed>>

\* run, had it gone from the scrape to the summary when downloads are disabled
AfterScrapeSkipsSite(s) == IF s.download_files THEN "download" ELSE "summary"

\* run, lines 102-104: the method that follows _scrape_all_module_content
AfterScrape(s) == IF s.download_files THEN "download" ELSE "generate"

\* the module loop of _scrape_all_module_content, lines 144-158: s.mi modules
\* are done; the next one starts, or the loop ends and total_modules is set
ScrapeNext(j, s) ==
    IF s.mi >= Len(Modules(Get(s.course_data)))
    THEN /\ sc' = [sc EXCEPT ![j] = [s EXCEPT !.stats.total_modules = s.mi]]
         /\ Goto(j, AfterScrape(s))
    ELSE /\ sc' = [sc EXCEPT ![j] = [s EXCEPT !.mi = @ + 1]]
         /\ Goto(j, "module")

\* _scrape_all_module_content, lines 138-143
ScrapeBegin(j) ==
    /\ pc[j] = "scrape"
    /\ jobs' = Log(j, "Scraping modules...", <<>>, "info")
    /\ IF BuildRaises(Get(sc[j].course_data))
       THEN /\ Raise(j, "JSONDecodeError")
            /\ sc' = sc
       ELSE /\ ScrapeNext(j, [sc[j] EXCEPT !.mi = 0])
            /\ exc' = exc
    /\ TaskStep
    /\ UNCHANGED <<background, launched, fs, fetched, attempts, absorbed>>

\* the module the scrape loop would be at, had it walked the structure backwards
CurrentModuleReversed(s) ==
    Modules(Get(s.course_data))[Len(Modules(Get(s.course_data))) + 1 - s.mi].module

\* the module the scrape loop is at
CurrentModule(s) == Modules(Get(s.course_data))[s.mi].module

\* lines 146-147
ModuleBegin(j) ==
    /\ pc[j] = "module"
    /\ jobs' = Log(j, "Processing module: ", CurrentModule(sc[j]).name, "info")
    /\ Goto(j, "goto")
    /\ TaskStep
    /\ UNCHANGED <<background, launched, sc, exc, fs, fetched, attempts, absorbed>>

\* the value of an img's src attribute: the remote URL, or the local path
\* _download_media returned
Src(url, local) == [url |-> url, local |-> local]

\* lines 152-154: a non-empty fragment is stored and counted
StoreContent(s, content) ==
    IF content.text \/ content.srcs # <<>>
    THEN [s EXCEPT !.module_contents = (CurrentModule(s).id :> content) @@ @,
                   !.stats.modules_with_content = @ + 1]
    ELSE s

\* lines 148-157 up to the first img of the content region.  loaded: whether
\* page.goto returns; page: the page it rendered
ModuleGoto(j) ==
    /\ pc[j] = "goto"
    /\ \E loaded \in BOOLEAN, page \in PagePool :
       IF ~loaded
       THEN \* line 155-156: the error is logged and the loop goes on
            /\ jobs' = Log(j, "Error scraping module: ", <<>>, "error")
            /\ absorbed' = [absorbed EXCEPT ![j] = @ + 1]
            /\ ScrapeNext(j, sc[j])
       ELSE IF ~page.region
       THEN \* line 163: no content region, the fragment is ""
            /\ jobs' = jobs
            /\ absorbed' = [absorbed EXCEPT ![j] = @ + 1]
            /\ ScrapeNext(j, sc[j])
       ELSE IF page.imgs = <<>>
       THEN /\ jobs' = jobs
            /\ absorbed' = absorbed
            /\ ScrapeNext(j, StoreContent(sc[j], [text |-> page.text, srcs |-> <<>>]))
       ELSE /\ jobs' = jobs
            /\ absorbed' = absorbed
            /\ sc' = [sc EXCEPT ![j].text = page.text, ![j].imgs = page.imgs,
                                ![j].srcs = <<>>]
            /\ Goto(j, "media")
    /\ TaskStep
    /\ UNCHANGED <<background, launched, exc, fs, fetched, attempts>>

\* os.path.basename(urlparse(url).path)
Basename(url) == IF url.path = <<>> THEN <<>> ELSE url.path[Len(url.path)]

\* line 175: the local file name of a media URL
MediaFilename(url, module_name) ==
    SanitizeFilename(module_name) \o <<"_">> \o Basename(url)

\* line 176
MediaPath(j, url, module_name) ==
    OutputDir(j) \o <<MEDIA_DIR, MediaFilename(url, module_name)>>

MediaOutcomes == {"200", "non200", "exception"}

\* line 177: whether _download_media calls requests.get
MediaFetches(f, j, url, module_name) ==
    MediaPath(j, url, module_name) \notin f.dirs \cup f.files

\* _download_media, lines 173-182, on file system f.  outcome: what
\* requests.get does when it is called.  The result: the file system, whether
\* the URL was requested, whether the call failed, and the value returned
DownloadMedia(f, j, url, module_name, outcome) ==
    LET local_path == MediaPath(j, url, module_name)
        relative == <<MEDIA_DIR, MediaFilename(url, module_name)>>
    IN  IF ~MediaFetches(f, j, url, module_name)
        THEN [fs |-> f, fetch |-> FALSE, failed |-> FALSE, local |-> Some(relative)]
        ELSE IF outcome = "exception"
        THEN [fs |-> f, fetch |-> TRUE, failed |-> TRUE, local |-> None]
        ELSE IF outcome = "non200"
        THEN [fs |-> f, fetch |-> TRUE, failed |-> TRUE, local |-> Some(relative)]
        ELSE IF WriteFails(f, local_path)
        THEN [fs |-> f, fetch |-> TRUE, failed |-> TRUE, local |-> None]
        ELSE [fs |-> WriteFile(f, local_path), fetch |-> TRUE, failed |-> FALSE,
              local |-> Some(relative)]

\* line 168: only images of the media host are downloaded
IsMediaSrc(url) == url.host = MediaHost

\* _extract_tiptap_content, lines 166-171: one img of the content region
MediaResolve(j) ==
    /\ pc[j] = "media"
    /\ \E outcome \in MediaOutcomes :
       LET url == Head(sc[j].imgs)
           r == IF IsMediaSrc(url)
                THEN DownloadMedia(fs, j, url, CurrentModule(sc[j]).name, outcome)
                ELSE [fs |-> fs, fetch |-> FALSE, failed |-> FALSE, local |-> None]
           s == [sc[j] EXCEPT !.imgs = Tail(@),
                              !.srcs = Append(@, Src(url, r.local))]
       IN  /\ fs' = r.fs
           /\ fetched' = IF r.fetch THEN [fetched EXCEPT ![j] = Append(@, url)]
                         ELSE fetched
           /\ absorbed' = IF r.failed THEN [absorbed EXCEPT ![j] = @ + 1]
                          ELSE absorbed
           /\ IF s.imgs = <<>>
              THEN ScrapeNext(j, [StoreContent(s, [text |-> s.text, srcs |-> s.srcs])
                                     EXCEPT !.srcs = <<>>, !.text = FALSE])
              ELSE /\ sc' = [sc EXCEPT ![j] = s]
                   /\ pc' = pc
    /\ TaskStep
    /\ UNCHANGED <<jobs, background, launched, exc, attempts>>

\* Python truthiness of dict.get(key): present and not empty
Truthy(o) == IsSome(o) /\ Get(o) # <<>>

\* lines 205-208: the local name of a file reference
FileName(file_info) ==
    LET raw == IF Truthy(file_info.name) THEN Get(file_info.name)
               ELSE IF Truthy(file_info.title) THEN Get(file_info.title)
               ELSE FilePrefix \o Get(file_info.file_id)
        file_name == SanitizeFilename(raw)
    IN  IF "." \notin Range(file_name) THEN file_name \o BinExt ELSE file_name

\* lines 186, 194-198: downloads/<section-slug>/<module-slug> under the output root
ModuleFilesDir(j, section_name, module_name) ==
    OutputDir(j) \o <<DownloadsDir, SanitizeFilename(section_name),
                      SanitizeFilename(module_name)>>

\* _download_all_files, lines 185-192
DownloadBegin(j) ==
    /\ pc[j] = "download"
    /\ jobs' = Log(j, "Downloading attachments...", <<>>, "info")
    /\ IF MkdirFails(fs, OutputDir(j) \o <<DownloadsDir>>)
       THEN /\ Raise(j, "FileExistsError")
            /\ UNCHANGED <<fs, sc>>
       ELSE /\ fs' = Mkdir(fs, OutputDir(j) \o <<DownloadsDir>>)
            /\ sc' = [sc EXCEPT ![j].mi = 1, ![j].fi = 0, ![j].total_files = 0]
            /\ Goto(j, "dl_module")
            /\ exc' = exc
    /\ TaskStep
    /\ UNCHANGED <<background, launched, fetched, attempts, absorbed>>

\* lines 193-199 and 237: the next module's directory is made, or the loop
\* over the modules ends and files_downloaded is set
DownloadModule(j) ==
    /\ pc[j] = "dl_module"
    /\ LET mods == Modules(Get(sc[j].course_data))
       IN  IF sc[j].mi > Len(mods)
           THEN /\ sc' = [sc EXCEPT ![j].stats.files_downloaded = sc[j].total_files,
                                    ![j].mi = 0]
                /\ Goto(j, "generate")
                /\ UNCHANGED <<fs, exc>>
           ELSE LET m == mods[sc[j].mi]
                    dir == ModuleFilesDir(j, m.section, m.module.name)
                IN  IF MkdirFails(fs, dir)
                    THEN /\ Raise(j, "FileExistsError")
                         /\ UNCHANGED <<fs, sc>>
                    ELSE /\ fs' = Mkdir(fs, dir)
                         /\ exc' = exc
                         /\ IF m.module.files = <<>>
                            THEN /\ sc' = [sc EXCEPT ![j].mi = @ + 1]
                                 /\ pc' = pc
                            ELSE /\ sc' = [sc EXCEPT ![j].fi = 1]
                                 /\ Goto(j, "dl_file")
    /\ TaskStep
    /\ UNCHANGED <<jobs, background, launched, fetched, attempts, absorbed>>

\* what the two requests of lines 215 and 226 do: the signed-URL request
\* raises, answers with an error status, answers 200 without a URL; the byte
\* fetch raises, answers with an error status, answers 200.  (A 200 whose body
\* is not JSON makes the body text the URL, line 223: one of the last three.)
FileOutcomes ==
    {"resolve_exception", "resolve_non200", "resolve_no_url",
     "fetch_exception", "fetch_non200", "fetched"}

\* line 201: the loop over the module's files moves on
FileNext(j, s) ==
    IF s.fi >= Len(Modules(Get(s.course_data))[s.mi].module.files)
    THEN /\ sc' = [sc EXCEPT ![j] = [s EXCEPT !.mi = @ + 1, !.fi = 0]]
         /\ Goto(j, "dl_module")
    ELSE /\ sc' = [sc EXCEPT ![j] = [s EXCEPT !.fi = @ + 1]]
         /\ pc' = pc

\* lines 232-233, had the except clause re-raised the error
FileFailedRaises(j, file_name) ==
    /\ Raise(j, "playwright Error")
    /\ UNCHANGED <<jobs, absorbed, fs, sc>>

\* lines 232-233: the except clause around one file's download logs the
\* error, and the loop goes on
FileFailed(j, file_name) ==
    /\ jobs' = Log(j, "Failed to download ", file_name, "error")
    /\ absorbed' = [absorbed EXCEPT ![j] = @ + 1]
    /\ fs' = fs
    /\ exc' = exc
    /\ FileNext(j, sc[j])

\* lines 201-235: one file reference of the current module
DownloadFile(j) ==
    /\ pc[j] = "dl_file"
    /\ \E outcome \in FileOutcomes :
       LET m == Modules(Get(sc[j].course_data))[sc[j].mi]
           file_info == m.module.files[sc[j].fi]
           file_name == FileName(file_info)
           output_path == ModuleFilesDir(j, m.section, m.module.name) \o <<file_name>>
       IN  IF ~Truthy(file_info.file_id)
           THEN \* line 202: continue
                /\ FileNext(j, sc[j])
                /\ UNCHANGED <<jobs, fs, attempts, absorbed, exc>>
           ELSE /\ attempts' = [attempts EXCEPT ![j] = Append(@, Get(file_info.file_id))]
                /\ IF outcome \in {"resolve_exception", "fetch_exception"}
                      \/ (outcome = "fetched" /\ WriteFails(fs, output_path))
                   THEN FileFailed(j, file_name)
                   ELSE IF outcome = "fetched"
                   THEN \* lines 228-231
                        /\ fs' = WriteFile(fs, output_path)
                        /\ exc' = exc
                        /\ jobs' = Log(j, "Downloaded: ", file_name, "info")
                        /\ absorbed' = absorbed
                        /\ FileNext(j, [sc[j] EXCEPT !.total_files = @ + 1])
                   ELSE \* no URL, or an error status: nothing is written or logged
                        /\ absorbed' = [absorbed EXCEPT ![j] = @ + 1]
                        /\ UNCHANGED <<jobs, fs, exc>>
                        /\ FileNext(j, sc[j])
    /\ TaskStep
    /\ UNCHANGED <<background, launched, fetched>>

\* line 260: <section-slug>/<module-slug>.html under the output root
PagePath(j, section_name, module_name) ==
    OutputDir(j) \o <<SanitizeFilename(section_name),
                      SanitizeFilename(module_name) \o HtmlExt>>

RECURSIVE WritePages(_, _, _)
\* lines 258-284: the module pages, in structure order, until a write fails
WritePages(f, j, mods) ==
    IF mods = <<>> THEN [fs |-> f, ok |-> TRUE]
    ELSE LET path == PagePath(j, Head(mods).section, Head(mods).module.name)
         IN  IF MkdirFails(f, Parent(path)) \/ WriteFails(Mkdir(f, Parent(path)), path)
             THEN [fs |-> Mkdir(f, Parent(path)), ok |-> FALSE]
             ELSE WritePages(WriteFile(Mkdir(f, Parent(path)), path), j, Tail(mods))

\* lines 241-255: the assets and the index page
WriteIndex(f, j) ==
    LET assets == OutputDir(j) \o <<AssetsDir>>
        f1 == WriteFile(WriteFile(Mkdir(f, assets), assets \o <<StyleCss>>),
                        assets \o <<ScriptJs>>)
        index == OutputDir(j) \o <<IndexHtml>>
    IN  IF MkdirFails(f, assets) THEN [fs |-> f, ok |-> FALSE]
        ELSE IF WriteFails(f1, index) THEN [fs |-> f1, ok |-> FALSE]
        ELSE [fs |-> WriteFile(f1, index), ok |-> TRUE]

\* what _generate_html_website writes, lines 241-284
WriteSite(f, j, course_data) ==
    LET r == WriteIndex(f, j)
    IN  IF r.ok THEN WritePages(r.fs, j, Modules(course_data)) ELSE r

\* _generate_html_website, lines 239-284
GenerateHtmlWebsite(j) ==
    /\ pc[j] = "generate"
    /\ jobs' = Log(j, "Generating static website...", <<>>, "info")
    /\ LET r == WriteSite(fs, j, Get(sc[j].course_data))
       IN  /\ fs' = r.fs
           /\ IF r.ok THEN Goto(j, "summary") /\ exc' = exc
              ELSE Raise(j, "OSError")
    /\ TaskStep
    /\ UNCHANGED <<background, launched, sc, fetched, attempts, absorbed>>

\* line 260 and line 294: the page name "<section-slug>/<module-slug>.html"
ModuleFilename(section_name, module_name) ==
    SanitizeFilename(section_name) \o <<"/">> \o SanitizeFilename(module_name)
        \o HtmlExt

\* f"../{m_fname}"
DotDotSlash(s) == <<".", ".", "/">> \o s

\* one <a> of the navigation block: its href, whether its class holds
\* "active", and its text (the module's name, "Index" for the first)
NavItem(href, active, label) == [href |-> href, active |-> active, label |-> label]

\* line 288
IsNested(current_page) == "/" \in Range(current_page) /\ current_page # IndexHtml

\* lines 292-297: the entries of the modules, in the order of the two loops
NavModules(mods, current_page) ==
    [i \in DOMAIN mods |->
        LET m_fname == ModuleFilename(mods[i].section, mods[i].module.name)
        IN  NavItem(IF IsNested(current_page) THEN DotDotSlash(m_fname) ELSE m_fname,
                    current_page = m_fname,
                    mods[i].module.name)]

\* SkoolClassroomScraper._generate_navigation
GenerateNavigation(structure, current_page) ==
    <<NavItem(IF IsNested(current_page) THEN DotDotSlash(IndexHtml) ELSE IndexHtml,
              FALSE, <<"I","n","d","e","x">>)>>
        \o NavModules(FlatModules(structure.modules), current_page)

\* _print_summary, lines 342-343
PrintSummary(j) ==
    /\ pc[j] = "summary"
    /\ jobs' = Log(j, "Job finished! Processed modules, Downloaded files.", <<>>,
                   "success")
    /\ Goto(j, "return")
    /\ TaskStep
    /\ UNCHANGED <<background, launched, sc, exc, fs, fetched, attempts, absorbed>>

\* lines 124-125, had the status been set where the result is stored
SetResultAsStatus(j) ==
    /\ pc[j] = "return"
    /\ jobs' = [jobs EXCEPT ![j].status = "completed"]
    /\ Goto(j, "set_status")
    /\ TaskStep
    /\ UNCHANGED <<background, launched, sc, exc, fs, fetched, attempts, absorbed>>

\* run returns str(self.output_dir.absolute()), line 106; line 124 stores it
SetResult(j) ==
    /\ pc[j] = "return"
    /\ jobs' = [jobs EXCEPT ![j].result = Some(OutputDir(j))]
    /\ Goto(j, "set_status")
    /\ TaskStep
    /\ UNCHANGED <<background, launched, sc, exc, fs, fetched, attempts, absorbed>>

\* line 125
SetCompleted(j) ==
    /\ pc[j] = "set_status"
    /\ jobs' = [jobs EXCEPT ![j].status = "completed"]
    /\ Goto(j, "set_progress")
    /\ TaskStep
    /\ UNCHANGED <<background, launched, sc, exc, fs, fetched, attempts, absorbed>>

\* line 126
SetProgress(j) ==
    /\ pc[j] = "set_progress"
    /\ jobs' = [jobs EXCEPT ![j].progress = 100]
    /\ Goto(j, "final_log")
    /\ TaskStep
    /\ UNCHANGED <<background, launched, sc, exc, fs, fetched, attempts, absorbed>>

\* line 127
FinalLog(j) ==
    /\ pc[j] = "final_log"
    /\ jobs' = Log(j, "Job finished successfully!", <<>>, "success")
    /\ Goto(j, "done")
    /\ TaskStep
    /\ UNCHANGED <<background, launched, sc, exc, fs, fetched, attempts, absorbed>>

\* the except clause, had it put a failed job back into the queue
ExceptStatusRetries(j) ==
    /\ pc[j] = "except"
    /\ jobs' = [jobs EXCEPT ![j].status = "queued"]
    /\ background' = background \cup
           {[job_id |-> j, request |-> [downloadFiles |-> sc[j].download_files]]}
    /\ Goto(j, "pending")
    /\ TaskStep
    /\ UNCHANGED <<launched, sc, exc, fs, fetched, attempts, absorbed>>

\* the except clause, had it left the status as it was
ExceptStatusKept(j) ==
    /\ pc[j] = "except"
    /\ Goto(j, "except_log")
    /\ TaskStep
    /\ UNCHANGED <<jobs, background, launched, sc, exc, fs, fetched, attempts,
                   absorbed>>

\* lines 129-130: the except clause sets the status
ExceptStatus(j) ==
    /\ pc[j] = "except"
    /\ jobs' = [jobs EXCEPT ![j].status = "failed"]
    /\ Goto(j, "except_log")
    /\ TaskStep
    /\ UNCHANGED <<background, launched, sc, exc, fs, fetched, attempts, absorbed>>

\* line 131
ExceptLog(j) ==
    /\ pc[j] = "except_log"
    /\ jobs' = Log(j, "Critical Error: ", <<>>, "error")
    /\ Goto(j, "failed")
    /\ TaskStep
    /\ UNCHANGED <<background, launched, sc, exc, fs, fetched, attempts, absorbed>>

\* the steps of the service other than the fetch of the classroom page
OtherSteps ==
    \/ \E d \in BOOLEAN : StartJob(d)
    \/ \E id \in DOMAIN jobs \cup {UnknownId} : GetStatus(id)
    \/ \E id \in DOMAIN jobs \cup {UnknownId} : DownloadResult(id)
    \/ \E j \in DOMAIN jobs : RunScraperTask(j)
    \/ \E j \in DOMAIN jobs : InitLog(j)
    \/ \E j \in DOMAIN jobs : Construct(j)
    \/ \E j \in DOMAIN jobs : RunBegin(j)
    \/ \E j \in DOMAIN jobs : AuthBegin(j)
    \/ \E j \in DOMAIN jobs : Login(j)
    \/ \E j \in DOMAIN jobs : ExtractCourseStructure(j)
    \/ \E j \in DOMAIN jobs : ScrapeBegin(j)
    \/ \E j \in DOMAIN jobs : ModuleBegin(j)
    \/ \E j \in DOMAIN jobs : ModuleGoto(j)
    \/ \E j \in DOMAIN jobs : MediaResolve(j)
    \/ \E j \in DOMAIN jobs : DownloadBegin(j)
    \/ \E j \in DOMAIN jobs : DownloadModule(j)
    \/ \E j \in DOMAIN jobs : DownloadFile(j)
    \/ \E j \in DOMAIN jobs : GenerateHtmlWebsite(j)
    \/ \E j \in DOMAIN jobs : PrintSummary(j)
    \/ \E j \in DOMAIN jobs : SetResult(j)
    \/ \E j \in DOMAIN jobs : SetCompleted(j)
    \/ \E j \in DOMAIN jobs : SetProgress(j)
    \/ \E j \in DOMAIN jobs : FinalLog(j)
    \/ \E j \in DOMAIN jobs : ExceptStatus(j)
    \/ \E j \in DOMAIN jobs : ExceptLog(j)

Next ==
    \/ OtherSteps
    \/ \E j \in DOMAIN jobs : FetchClassroom(j)

Spec == Init /\ [][Next]_vars

----------------------------------------------------------------------------
(* The pipeline's phases, read off the position of the task. *)

\* the phase of section 4.7 whose code the task is in; Done is what follows
\* _generate_html_website, Failed the except clause
PhaseOf(p) ==
    CASE p \in {"pending", "init", "construct", "run"} -> "NotStarted"
      [] p \in {"auth", "login"} -> "Authenticating"
      [] p \in {"fetch", "structure"} -> "FetchingStructure"
      [] p \in {"scrape", "module", "goto", "media"} -> "ExtractingContent"
      [] p \in {"download", "dl_module", "dl_file"} -> "DownloadingFiles"
      [] p = "generate" -> "GeneratingSite"
      [] p \in {"summary", "return", "set_status", "set_progress", "final_log",
                "done"} -> "Done"
      [] OTHER -> "Failed"

PhaseEdges ==
    {<<"NotStarted", "Authenticating">>,
     <<"Authenticating", "FetchingStructure">>,
     <<"FetchingStructure", "ExtractingContent">>,
     <<"ExtractingContent", "DownloadingFiles">>,
     <<"ExtractingContent", "GeneratingSite">>,
     <<"DownloadingFiles", "GeneratingSite">>,
     <<"GeneratingSite", "Done">>}

StatusEdges ==
    {<<"queued", "running">>, <<"running", "completed">>, <<"running", "failed">>}

ErrorEntries(logs) == {i \in DOMAIN logs : logs[i].type \in {"warning", "error"}}

----------------------------------------------------------------------------
(* The claims. *)

\* C1: a submitted job's record starts as (queued, no logs, no result,
\* progress 0) and its id is returned; every job has exactly one pipeline
\* task, waiting or launched once; and a status only ever moves queued ->
\* running -> completed or failed, the last two never being left.
C1_JobLifecycle ==
    [][/\ \A j \in DOMAIN jobs' \ DOMAIN jobs :
             /\ jobs'[j] = [status |-> "queued", logs |-> <<>>, result |-> <<>>,
                            progress |-> 0]
             /\ response'.op = "start_job" /\ response'.job_id = <<j>>
       /\ \A j \in DOMAIN jobs' :
             launched'[j] + Cardinality({t \in background' : t.job_id = j}) = 1
       /\ \A j \in DOMAIN jobs :
             \/ jobs'[j].status = jobs[j].status
             \/ <<jobs[j].status, jobs'[j].status>> \in StatusEdges]_vars

\* C1 witness: a job that went through queued, running and completed with
\* its one task launched
C1_Witness ==
    \E j \in DOMAIN jobs : jobs[j].status = "completed" /\ launched[j] = 1

\* C2: within one run the phase only ever changes along Authenticating,
\* FetchingStructure, ExtractingContent, DownloadingFiles, GeneratingSite,
\* Done (DownloadingFiles possibly left out), or to Failed: no phase is
\* entered twice or before the one before it has finished, and Done is
\* entered only from GeneratingSite.
C2_PhaseOrder ==
    [][\A j \in DOMAIN pc :
          \/ PhaseOf(pc'[j]) = PhaseOf(pc[j])
          \/ PhaseOf(pc'[j]) = "Failed"
          \/ <<PhaseOf(pc[j]), PhaseOf(pc'[j])>> \in PhaseEdges]_vars

\* C2 witness: a run with downloads enabled that reached the end, having
\* gone through every phase
C2_Witness ==
    \E j \in DOMAIN pc :
        pc[j] = "done" /\ sc[j].download_files /\ attempts[j] # <<>>

FatalBeforeSite ==
    {<<"Login failed">>, <<"Could not find course data">>, <<"KeyError">>}

\* C3: once a fatal error was raised the task is in the except clause or
\* past it and the result stays unset; when the task has ended the status is
\* failed and the last log entry is an error entry; and after a login
\* failure, a missing course-data script or a course document of the wrong
\* shape no index page exists.
C3_FatalErrorFails ==
    \A j \in DOMAIN jobs :
        exc[j] # None =>
            /\ PhaseOf(pc[j]) = "Failed"
            /\ jobs[j].result = None
            /\ pc[j] = "failed" =>
                  /\ jobs[j].status = "failed"
                  /\ jobs[j].logs[Len(jobs[j].logs)].type = "error"
            /\ exc[j] \in FatalBeforeSite =>
                  OutputDir(j) \o <<IndexHtml>> \notin fs.files

\* C3 witness: a task that ended after a course document of the wrong shape
C3_Witness ==
    \E j \in DOMAIN jobs : pc[j] = "failed" /\ exc[j] = <<"KeyError">>

\* C4: the result query answers 404 for an unknown id and 400 for a job that
\* is not completed; a completed job always has its result set, and the
\* query for it is answered neither 400 nor 404.
C4_ResultQuery ==
    /\ \A j \in DOMAIN jobs :
          jobs[j].status = "completed" => jobs[j].result # None
    /\ response.op = "download_result" =>
          LET id == response.job_id[1]
          IN  /\ id \notin DOMAIN jobs => response.code = 404
              /\ id \in DOMAIN jobs =>
                    IF jobs[id].status = "completed"
                    THEN response.code \notin {400, 404}
                    ELSE response.code = 400

\* C4 witness: the result query was answered for a completed job
C4_Witness ==
    /\ response.op = "download_result"
    /\ response.code = 200
    /\ jobs[response.job_id[1]].status = "completed"

\* C5: a status query never returns a completed record whose progress is not
\* 100 or whose last log entry is not the final success entry, nor a failed
\* record whose last log entry is not the final error entry.
C5_ConsistentSnapshot ==
    (response.op = "get_status" /\ response.body # None) =>
        LET job == response.body[1]
            last == job.logs[Len(job.logs)]
        IN  /\ job.status = "completed" =>
                  /\ job.progress = 100
                  /\ job.logs # <<>>
                  /\ last.message = "Job finished successfully!"
            /\ job.status = "failed" =>
                  /\ job.logs # <<>>
                  /\ last.message = "Critical Error: " /\ last.type = "error"

\* the file ids of the references that carry one, in list order
FileIds(refs) ==
    LET kept == SelectSeq(refs, LAMBDA f : f.file_id # <<>> /\ f.file_id[1] # <<>>)
    IN  [i \in DOMAIN kept |-> kept[i].file_id[1]]

RECURSIVE StructureFileIds(_)
\* the file ids of a course structure, sections and modules in order
StructureFileIds(mods) ==
    IF mods = <<>> THEN <<>>
    ELSE FileIds(Head(mods).module.files) \o StructureFileIds(Tail(mods))

IsPrefix(s, t) == Len(s) <= Len(t) /\ SubSeq(t, 1, Len(s)) = s

\* C6: the signed-URL requests of a job are, at every moment, a prefix of
\* the structure's file ids in structure order; once the job is past the
\* File Downloader they are all of them, each once; and a job that made such
\* a request is never failed, whatever the requests answered.
C6_AllFilesAttempted ==
    \A j \in DOMAIN jobs :
        sc[j].course_data # None =>
            LET expected == StructureFileIds(Modules(sc[j].course_data[1]))
            IN  /\ IsPrefix(attempts[j], expected)
                /\ (sc[j].download_files
                      /\ PhaseOf(pc[j]) \in {"GeneratingSite", "Done"})
                      => attempts[j] = expected
                /\ attempts[j] # <<>> =>
                      /\ PhaseOf(pc[j]) # "Failed"
                      /\ jobs[j].status # "failed"

\* C6 witness: a finished job that requested two files of one module, none
\* of which was downloaded
C6_Witness ==
    \E j \in DOMAIN jobs :
        /\ pc[j] = "done"
        /\ Len(attempts[j]) = 2
        /\ sc[j].stats.files_downloaded = 0
        /\ absorbed[j] >= 2

\* C7: a completed job's log holds as many warning and error entries as the
\* pipeline absorbed item failures.
C7_NoSilentFailures ==
    \A j \in DOMAIN jobs :
        jobs[j].status = "completed" =>
            Cardinality(ErrorEntries(jobs[j].logs)) = absorbed[j]

\* C8: a task that ended after a failed login left exactly one error entry
\* in the log and nothing below the job's output root.
C8_LoginFailure ==
    \A j \in DOMAIN jobs :
        (pc[j] = "failed" /\ exc[j] = <<"Login failed">>) =>
            /\ jobs[j].status = "failed"
            /\ Cardinality(ErrorEntries(jobs[j].logs)) = 1
            /\ Below(fs, OutputDir(j)) = {}

\* the module pages of a course structure that exist in the job's output
PagesWritten(j, mods) ==
    {PagePath(j, mods[i].section, mods[i].module.name) : i \in DOMAIN mods}
        \cap fs.files

\* C9: a job submitted with downloadFiles=false is never in the
\* DownloadingFiles phase, and once it is completed its output holds no
\* downloads directory and holds index.html and as many module pages as the
\* course structure has modules.
C9_DownloadsDisabled ==
    \A j \in DOMAIN jobs :
        ~sc[j].download_files =>
            /\ PhaseOf(pc[j]) # "DownloadingFiles"
            /\ jobs[j].status = "completed" =>
                  /\ OutputDir(j) \o <<DownloadsDir>> \notin fs.dirs \cup fs.files
                  /\ OutputDir(j) \o <<IndexHtml>> \in fs.files
                  /\ Cardinality(PagesWritten(j, Modules(sc[j].course_data[1])))
                        = Len(Modules(sc[j].course_data[1]))

\* C10: within one job no media URL is requested from the network twice.
C10_MediaFetchedOnce ==
    \A j \in DOMAIN jobs :
        \A i, k \in DOMAIN fetched[j] :
            i # k => fetched[j][i] # fetched[j][k]

\* the img sources the Content Extractor rewrote or left alone so far: those
\* of the stored fragments and those of the module being extracted
RewrittenSrcs(j) ==
    UNION {Range(sc[j].module_contents[id].srcs) : id \in DOMAIN sc[j].module_contents}
        \cup Range(sc[j].srcs)

\* C11: an img's src is a local path only if media resolve returned one, and
\* media resolve returns one only when the file exists locally (null after
\* an exception or a non-success status).
C11_MediaNullOnFailure ==
    \A j \in DOMAIN jobs :
        \A src \in RewrittenSrcs(j) :
            src.local # None => OutputDir(j) \o Get(src.local) \in fs.files

----------------------------------------------------------------------------
(* The scraper's methods called directly, on arguments drawn from bounded  *)
(* sets: call holds the method's name, its arguments and, once the method  *)
(* returned, its result.                                                   *)

\* the longest name handed to _sanitize_filename
MaxLen == 3

Call(fn, args) == [fn |-> fn, args |-> args, result |-> None]

\* the method of the pending call returns
Return(value) ==
    /\ call.result = None
    /\ call' = [call EXCEPT !.result = Some(value)]
    /\ UNCHANGED <<jobs, background, launched, pc, sc, exc, fs, fetched, attempts,
                   absorbed, response, uuids>>

\* characters of names: a lower-case and an upper-case letter, a digit, the
\* two punctuation marks the sanitizer keeps, a space and one other mark
NameChars == {"a", "B", "1", "-", ".", " ", "!"}
Names == UNION {[1..n -> NameChars] : n \in 0..MaxLen}

\* the job whose scraper is called, and its output directory after __init__
ScraperJob == <<"1">>
FreshOutput == [dirs |-> ConstructDirs(ScraperJob), files |-> {}]

MediaUrls ==
    {Url(MediaHost, <<<<"a">>, <<"x",".","p","n","g">>>>),
     Url(MediaHost, <<<<"b">>, <<"x",".","p","n","g">>>>),
     Url(MediaHost, <<<<"a">>, <<"y",".","p","n","g">>>>)}
ModuleNames == {<<"A">>, <<"B"," ","1">>}

\* _sanitize_filename(name), and _sanitize_filename of what it returned
CallSanitizeFilename ==
    /\ call.fn = "_sanitize_filename"
    /\ Return([token |-> SanitizeFilename(call.args[1]),
               again |-> SanitizeFilename(SanitizeFilename(call.args[1]))])

\* _download_media(url1, module_name) and then _download_media(url2,
\* module_name) by one scraper, the requests answering as o1 and o2
CallDownloadMedia ==
    /\ call.fn = "_download_media"
    /\ LET a == call.args
           r1 == DownloadMedia(FreshOutput, ScraperJob, a.url1, a.module_name, a.o1)
           r2 == DownloadMedia(r1.fs, ScraperJob, a.url2, a.module_name, a.o2)
       IN  Return([first |-> r1, second |-> r2])

\* a set whose title is "..", and a top-level module
SetDots ==
    Child(Node("s3", <<"x">>, "set", Metadata(Some(<<".",".">>), None)),
          <<Child(Node("m7", <<"T","w","o">>, "module", Metadata(None, None)), <<>>)>>)
ModuleC ==
    Child(Node("m8", <<"C">>, "module", Metadata(None, None)), <<>>)

SiteChildPool == ChildPool \cup {SetDots, ModuleC}
SiteChildLists ==
    UNION {{c \in [1..n -> SiteChildPool] : \A i, k \in 1..n : i # k => c[i] # c[k]} :
              n \in 0..MaxChildren}
SiteDocs == {CourseData(CourseHead, c, None) : c \in SiteChildLists} \cup {LegacyDoc}

\* the names of the pages _generate_html_website renders for a structure:
\* "index.html" (line 253) and each module's page name (line 282)
PageNames(structure) ==
    {IndexHtml} \cup
    {ModuleFilename(m.section, m.module.name) :
        m \in Range(FlatModules(structure.modules))}

\* _generate_navigation(structure, current_page)
CallGenerateNavigation ==
    /\ call.fn = "_generate_navigation"
    /\ Return(GenerateNavigation(call.args.structure, call.args.current_page))

\* _build_course_structure(course_data): the exception it raises, or the
\* structure it returns
CallBuildCourseStructure ==
    /\ call.fn = "_build_course_structure"
    /\ Return(IF BuildRaises(call.args[1])
              THEN [raised |-> Some("JSONDecodeError"), structure |-> None]
              ELSE [raised |-> None,
                    structure |-> Some(BuildCourseStructure(call.args[1]))])

ScraperInit ==
    /\ Started
    /\ \/ \E name \in Names : call = Call("_sanitize_filename", <<name>>)
       \/ \E u1, u2 \in MediaUrls, m \in ModuleNames, o1, o2 \in MediaOutcomes :
             call = Call("_download_media",
                         [url1 |-> u1, url2 |-> u2, module_name |-> m,
                          o1 |-> o1, o2 |-> o2])
       \/ \E d \in SiteDocs :
             \E page \in PageNames(BuildCourseStructure(d)) :
                call = Call("_generate_navigation",
                            [structure |-> BuildCourseStructure(d),
                             current_page |-> page])
       \/ \E d \in SiteDocs \cup {BrokenDoc} :
             call = Call("_build_course_structure", <<d>>)

ScraperNext ==
    \/ CallSanitizeFilename
    \/ CallDownloadMedia
    \/ CallGenerateNavigation
    \/ CallBuildCourseStructure

ScraperSpec == ScraperInit /\ [][ScraperNext]_vars

\* C12: two distinct media URLs resolved with the same module name by one
\* scraper never get the same local path.
C12_DistinctMediaNames ==
    (call.fn = "_download_media" /\ call.result # None) =>
        LET r == Get(call.result)
        IN  (call.args.url1 # call.args.url2
               /\ r.first.local # None /\ r.second.local # None)
            => r.first.local # r.second.local

\* the names of the modules whose processing was announced, in log order
ProcessedNames(logs) ==
    LET began == SelectSeq(logs, LAMBDA e : e.message = "Processing module: ")
    IN  [i \in DOMAIN began |-> began[i].arg]

\* the names of the modules of the Structure Builder's output, in its order
StructureNames(course_data) ==
    [i \in DOMAIN Modules(course_data) |-> Modules(course_data)[i].module.name]

\* C13: every step of a job's task leaves the job's log as it was or appends
\* one entry to it; the modules whose processing began are, whenever the task
\* moves on, the first modules of the Structure Builder's output in its order;
\* and once the task is past the Content Extractor they are all of them, each
\* once.
C13_ModuleOrder ==
    [][\A j \in DOMAIN jobs :
          /\ Len(jobs'[j].logs) \in {Len(jobs[j].logs), Len(jobs[j].logs) + 1}
          /\ IsPrefix(jobs[j].logs, jobs'[j].logs)
          /\ (sc'[j].course_data # None /\ pc'[j] # pc[j]) =>
                LET began == ProcessedNames(jobs'[j].logs)
                    names == StructureNames(Get(sc'[j].course_data))
                IN  /\ IsPrefix(began, names)
                    /\ PhaseOf(pc'[j]) \in {"DownloadingFiles", "GeneratingSite", "Done"}
                          => began = names]_vars

\* C13 witness: a finished job of two modules, the page load of the first of
\* which raised an error
C13_Witness ==
    \E j \in DOMAIN jobs :
        /\ pc[j] = "done"
        /\ Len(ProcessedNames(jobs[j].logs)) = 2
        /\ \E i \in 1..(Len(jobs[j].logs) - 1) :
              /\ jobs[j].logs[i].message = "Error scraping module: "
              /\ jobs[j].logs[i + 1].message = "Processing module: "

RECURSIVE Split(_)
\* the components of a "/"-separated relative path or href
Split(str) ==
    IF "/" \notin Range(str) THEN <<str>>
    ELSE LET k == CHOOSE i \in DOMAIN str :
                     str[i] = "/" /\ \A h \in 1..(i - 1) : str[h] # "/"
         IN  <<SubSeq(str, 1, k - 1)>> \o Split(SubSeq(str, k + 1, Len(str)))

RECURSIVE Walk(_, _)
\* the place reached from directory dir, both relative to the output root, by
\* following the components: "." stays, ".." goes up (above the root too)
Walk(dir, components) ==
    IF components = <<>> THEN dir
    ELSE LET c == Head(components)
             next == IF c = <<".">> \/ c = <<>> THEN dir
                     ELSE IF c = <<".", ".">>
                     THEN IF dir # <<>> /\ dir[Len(dir)] # <<".", ".">>
                          THEN SubSeq(dir, 1, Len(dir) - 1)
                          ELSE Append(dir, c)
                     ELSE Append(dir, c)
         IN  Walk(next, Tail(components))

\* where the file output_dir / page_name is, relative to the output root
Location(page_name) == Walk(<<>>, Split(page_name))

\* what an href found on the page page_name resolves to
Resolve(page_name, href) == Walk(Parent(Location(page_name)), Split(href))

\* C14: the navigation block of a page has the index link and one entry per
\* module in structure order; on a module page the hrefs are ../index.html
\* and ../<section-slug>/<module-slug>.html, on the index page index.html and
\* <section-slug>/<module-slug>.html without a leading ../; and every href
\* resolves, from the page that holds it, to the file written for its target.
C14_NavigationLinks ==
    (call.fn = "_generate_navigation" /\ call.result # None) =>
        LET nav == Get(call.result)
            page == call.args.current_page
            mods == FlatModules(call.args.structure.modules)
            fname(i) == ModuleFilename(mods[i].section, mods[i].module.name)
        IN  /\ Len(nav) = Len(mods) + 1
            /\ nav[1].href = IF page = IndexHtml THEN IndexHtml
                              ELSE DotDotSlash(IndexHtml)
            /\ Resolve(page, nav[1].href) = Location(IndexHtml)
            /\ \A i \in DOMAIN mods :
                  /\ nav[i + 1].label = mods[i].module.name
                  /\ nav[i + 1].href = IF page = IndexHtml THEN fname(i)
                                        ELSE DotDotSlash(fname(i))
                  /\ page = IndexHtml => ~IsPrefix(<<".", ".", "/">>, nav[i + 1].href)
                  /\ Resolve(page, nav[i + 1].href) = Location(fname(i))

\* how many of the first i children of a course document become sections
SectionsUpTo(children, i) ==
    Cardinality({h \in 1..i : children[h].course.unitType \in {"set", "module"}})

\* the module of a structure is the one built from the document's node
IsModuleOf(module, node) ==
    /\ module.id = node.id
    /\ module.files = IF node.metadata.resources = None THEN <<>>
                       ELSE Get(node.metadata.resources).refs

\* C15: for a children-shaped document the builder returns one section per
\* top-level child of unit type set or module, in source order, and none for
\* any other child; a set's section holds the set's own children in source
\* order, a module's section is named General and holds that module alone;
\* a module's files are its parsed resources, none when it has none.
C15_StructureBuilder ==
    (/\ call.fn = "_build_course_structure"
     /\ call.result # None
     /\ ~IsLegacy(call.args[1])
     /\ Get(call.result).raised = None) =>
        LET children == call.args[1].children
            sections == Get(Get(call.result).structure).modules
        IN  /\ Len(sections) = SectionsUpTo(children, Len(children))
            /\ \A i \in DOMAIN children :
                  LET child == children[i]
                      section == sections[SectionsUpTo(children, i)]
                  IN  /\ child.course.unitType = "set" =>
                            /\ Len(section.modules) = Len(child.children)
                            /\ \A n \in DOMAIN child.children :
                                  IsModuleOf(section.modules[n],
                                             child.children[n].course)
                      /\ child.course.unitType = "module" =>
                            /\ section.name = General
                            /\ Len(section.modules) = 1
                            /\ IsModuleOf(section.modules[1], child.course)

\* C15 witness: the structure built from a child of an unknown unit type
\* followed by a set
C15_Witness ==
    /\ call.fn = "_build_course_structure"
    /\ call.result # None
    /\ call.args[1].children = <<OtherChild, SetUnit>>
    /\ Len(Get(Get(call.result).structure).modules) = 1

\* C16: sanitizing a token the sanitizer returned gives the same token.
C16_SanitizerIdempotent ==
    (call.fn = "_sanitize_filename" /\ call.result # None) =>
        Get(call.result).again = Get(call.result).token

\* C16 witness: a name the sanitizer changed into a token of its own
C16_Witness ==
    /\ call.fn = "_sanitize_filename"
    /\ call.result # None
    /\ call.args[1] = <<" ", "B", "!">>
    /\ Get(call.result).token = <<"b">>

Alphanumeric == Range(Lowercase) \cup Range(Uppercase) \cup Range(Digits)

\* C17: the sanitizer never returns the empty string, and it returns the
\* fallback token for every name without a letter or digit.
C17_FallbackToken ==
    (call.fn = "_sanitize_filename" /\ call.result # None) =>
        /\ Get(call.result).token # <<>>
        /\ Range(call.args[1]) \cap Alphanumeric = {}
              => Get(call.result).token = Untitled

\* C18: the navigation block of a page marks exactly one entry active: the
\* index entry on the index page, the entry of the page's module on a module
\* page.
C18_ActiveEntry ==
    (call.fn = "_generate_navigation" /\ call.result # None) =>
        LET nav == Get(call.result)
            page == call.args.current_page
            mods == FlatModules(call.args.structure.modules)
            active == {i \in DOMAIN nav : nav[i].active}
        IN  /\ Cardinality(active) = 1
            /\ \A i \in active :
                  IF page = IndexHtml THEN i = 1
                  ELSE /\ i > 1
                       /\ ModuleFilename(mods[i - 1].section, mods[i - 1].module.name)
                             = page

\* line 269: the file references a module page lists as attachments
Attachments(module) == SelectSeq(module.files, LAMBDA f : Truthy(f.file_id))

\* lines 273-274: the href of a file reference's attachment entry
AttachmentHref(section_name, module_name, f) ==
    LET fname == SanitizeFilename(IF Truthy(f.name) THEN Get(f.name)
                                  ELSE <<"f","i","l","e">>)
    IN  DotDotSlash(DownloadsDir \o <<"/">> \o SanitizeFilename(section_name)
                      \o <<"/">> \o SanitizeFilename(module_name)
                      \o <<"/">> \o fname)

\* C19: on the pages of a finished job, the attachment entry of every file
\* reference whose file the File Downloader wrote resolves, from the module's
\* page, to the path of that file.
C19_AttachmentLinks ==
    \A j \in DOMAIN jobs :
        (pc[j] = "done" /\ sc[j].download_files) =>
            \A m \in Range(Modules(Get(sc[j].course_data))) :
                \A f \in Range(Attachments(m.module)) :
                    LET written == ModuleFilesDir(j, m.section, m.module.name)
                                       \o <<FileName(f)>>
                        href == AttachmentHref(m.section, m.module.name, f)
                    IN  written \in fs.files =>
                            OutputDir(j) \o Resolve(ModuleFilename(m.section,
                                                                   m.module.name), href)
                                = written

\* C20: the stats of a completed job count its modules: total_modules those
\* of the course structure, modules_with_content those with a stored
\* fragment, modules_without_content the others.
C20_JobStats ==
    \A j \in DOMAIN jobs :
        jobs[j].status = "completed" =>
            LET stats == sc[j].stats
                total == Len(Modules(Get(sc[j].course_data)))
                stored == Cardinality(DOMAIN sc[j].module_contents)
            IN  /\ stats.total_modules = total
                /\ stats.modules_with_content = stored
                /\ stats.modules_without_content = total - stored
                /\ stats.total_modules
                      = stats.modules_with_content + stats.modules_without_content

----------------------------------------------------------------------------
(* Two jobs at once: the thread pool runs their tasks concurrently.  The   *)
(* upstream site serves both the same small course.                        *)

\* uuid4 has two ids to hand out
TwoIds == {<<"1">>, <<"2">>}

\* a course of one top-level module
SmallDoc == CourseData(CourseHead, <<ModuleA>>, None)
SmallSite == {CoursePage(SmallDoc)}

\* the classroom pages the tasks fetched so far are those of the small site
ServedSmall ==
    \A j \in DOMAIN sc :
        sc[j].html_content # None => Get(sc[j].html_content) \in SmallSite

ConcurrentInit ==
    /\ jobs = <<>>
    /\ background = {}
    /\ launched = <<>>
    /\ pc = <<>>
    /\ sc = <<>>
    /\ exc = <<>>
    /\ fs = [dirs |-> {}, files |-> {}]
    /\ fetched = <<>>
    /\ attempts = <<>>
    /\ absorbed = <<>>
    /\ response = NoResponse
    /\ uuids = TwoIds
    /\ call = NoCall

ConcurrentNext ==
    \/ OtherSteps
    \/ \E j \in DOMAIN jobs : FetchClassroom(j) /\ ServedSmall'

ConcurrentSpec == ConcurrentInit /\ [][ConcurrentNext]_vars

\* job a's task took the step
Stepped(a) == pc'[a] # pc[a] \/ sc'[a] # sc[a]

\* the paths the step created
Created == (fs'.dirs \cup fs'.files) \ (fs.dirs \cup fs.files)

====
